---- MODULE Spec2Model ----
(***************************************************************************)
(* Model of the string-extraction and key-management engine of the         *)
(* VSBL-l10n editor extension (src/src/extension.ts).                      *)
(*                                                                         *)
(* A text is a sequence of one-character strings, so that the regular      *)
(* expressions and the String methods of the source can be modelled by     *)
(* what they do to the characters.  The resource (ARB) file is held as     *)
(* the ordered list of the entries of its top-level JSON object.           *)
(***************************************************************************)
EXTENDS Integers, Sequences, FiniteSets, TLC

VARIABLES
    arbFile,        \* the ARB file: [fmt, doc], doc the ordered [k, v] entries
    pathToArbFile,  \* TRUE when the module-level path variable is set
    editorText,     \* the literals of the active editor the user can select
    activeFile,     \* base name of the active editor's file, <<>> when there is none
    last,           \* observable outcome of the last completed request
    arbText,        \* the characters of the ARB file as last serialized
    requests,       \* the extraction requests started and not yet forgotten
    document,       \* the characters of the active editor's document
    bulk            \* progress of the command that extracts all marked literals

vars == <<arbFile, pathToArbFile, editorText, activeFile, last,
          arbText, requests, document, bulk>>

\* what the commands that work on one selection leave alone
others == <<arbText, requests, document, bulk>>

----------------------------------------------------------------------------
(* Characters *)

Lowers == <<"a","b","c","d","e","f","g","h","i","j","k","l","m",
            "n","o","p","q","r","s","t","u","v","w","x","y","z">>

Uppers == <<"A","B","C","D","E","F","G","H","I","J","K","L","M",
            "N","O","P","Q","R","S","T","U","V","W","X","Y","Z">>

Digits == {"0","1","2","3","4","5","6","7","8","9"}

Range(s) == { s[i] : i \in DOMAIN s }

LowerSet == Range(Lowers)

UpperSet == Range(Uppers)

\* the character class [a-zA-Z]
Alpha == LowerSet \cup UpperSet

\* the character class ['"]
Quotes == {"'", "\""}

\* String.prototype.toLowerCase on one character
LowerChar(c) ==
    IF c \in UpperSet THEN Lowers[CHOOSE i \in DOMAIN Uppers : Uppers[i] = c] ELSE c

\* String.prototype.toUpperCase on one character
UpperChar(c) ==
    IF c \in LowerSet THEN Uppers[CHOOSE i \in DOMAIN Lowers : Lowers[i] = c] ELSE c

----------------------------------------------------------------------------
(* String methods of the JavaScript runtime, on character sequences *)

RECURSIVE toLowerCase(_)
toLowerCase(s) ==
    IF s = <<>> THEN <<>> ELSE <<LowerChar(Head(s))>> \o toLowerCase(Tail(s))

RECURSIVE toUpperCase(_)
toUpperCase(s) ==
    IF s = <<>> THEN <<>> ELSE <<UpperChar(Head(s))>> \o toUpperCase(Tail(s))

\* s.includes(c) for a one-character c
includes(s, c) == \E i \in DOMAIN s : s[i] = c

\* s.startsWith(p)
startsWith(s, p) == Len(s) >= Len(p) /\ SubSeq(s, 1, Len(p)) = p

\* s.indexOf(p), 1-based; 0 when p does not occur
indexOf(s, p) ==
    LET hits == { i \in 1..(Len(s) - Len(p) + 1) : SubSeq(s, i, i + Len(p) - 1) = p }
    IN  IF hits = {} THEN 0 ELSE CHOOSE i \in hits : \A j \in hits : i <= j

\* s.replace(p, r) with a string pattern: the first occurrence only
replaceFirst(s, p, r) ==
    LET i == indexOf(s, p)
    IN  IF i = 0 THEN s
        ELSE SubSeq(s, 1, i - 1) \o r \o SubSeq(s, i + Len(p), Len(s))

\* s.replace(/[...]/g, ''): every character of the class removed
RECURSIVE removeAll(_, _)
removeAll(s, class) ==
    IF s = <<>> THEN <<>>
    ELSE (IF Head(s) \in class THEN <<>> ELSE <<Head(s)>>) \o removeAll(Tail(s), class)

\* s.replace(/[^...]/g, ''): every character outside the class removed
RECURSIVE keepOnly(_, _)
keepOnly(s, class) ==
    IF s = <<>> THEN <<>>
    ELSE (IF Head(s) \in class THEN <<Head(s)>> ELSE <<>>) \o keepOnly(Tail(s), class)

\* white space as String.prototype.trim sees it
WhiteSpace == {" ", "\n", "\t"}

RECURSIVE trimStart(_)
trimStart(s) ==
    IF s # <<>> /\ Head(s) \in WhiteSpace THEN trimStart(Tail(s)) ELSE s

RECURSIVE trimEnd(_)
trimEnd(s) ==
    IF s # <<>> /\ s[Len(s)] \in WhiteSpace THEN trimEnd(SubSeq(s, 1, Len(s) - 1)) ELSE s

trim(s) == trimEnd(trimStart(s))

\* s.split(' '): the pieces between single spaces, empty pieces kept
RECURSIVE split(_)
split(s) ==
    LET i == indexOf(s, <<" ">>)
    IN  IF i = 0 THEN <<s>>
        ELSE <<SubSeq(s, 1, i - 1)>> \o split(SubSeq(s, i + 1, Len(s)))

\* s.charAt(0)
charAt0(s) == IF s = <<>> THEN <<>> ELSE <<s[1]>>

\* s.slice(1)
slice1(s) == IF s = <<>> THEN <<>> ELSE Tail(s)

----------------------------------------------------------------------------
(* Key Generator *)

\* word.charAt(0).toUpperCase() + word.slice(1)
Capitalize(word) == toUpperCase(charAt0(word)) \o slice1(word)

\* .map((word) => word.replace(/[^a-zA-Z]/g, '')).map(Capitalize).join('')
RECURSIVE joinWords(_)
joinWords(words) ==
    IF words = <<>> THEN <<>>
    ELSE Capitalize(keepOnly(Head(words), Alpha)) \o joinWords(Tail(words))

generateKeyFromString(stringValue) ==
    LET almostCamelCase == joinWords(split(stringValue))
    IN  toLowerCase(charAt0(almostCamelCase)) \o slice1(almostCamelCase)

\* a snake case that lower-cases the capitals without marking the boundary
toSnakeCase_NoUnderscore(str) == toLowerCase(str)

\* str.replace(/[A-Z]/g, (letter) => `_${letter.toLowerCase()}`)
RECURSIVE toSnakeCase(_)
toSnakeCase(str) ==
    IF str = <<>> THEN <<>>
    ELSE (IF Head(str) \in UpperSet THEN <<"_", LowerChar(Head(str))>> ELSE <<Head(str)>>)
         \o toSnakeCase(Tail(str))

\* .replace(/_([a-z])/g, (match) => match[1].toUpperCase()), left to right
RECURSIVE camelScan(_)
camelScan(s) ==
    IF s = <<>> THEN <<>>
    ELSE IF Len(s) >= 2 /\ s[1] = "_" /\ s[2] \in LowerSet
         THEN <<UpperChar(s[2])>> \o camelScan(SubSeq(s, 3, Len(s)))
         ELSE <<Head(s)>> \o camelScan(Tail(s))

toCamelCase(str) == camelScan(toLowerCase(str))

\* fileName: the base name of the active editor's file, <<>> when no editor is
\* active (fileName undefined, snakeCaseFileName '')
generateKey(variableName, fileName) ==
    LET snakeCaseVariableName == toSnakeCase(variableName)
        snakeCaseFileName == IF fileName # <<>> THEN toSnakeCase(fileName) ELSE <<>>
    IN  toCamelCase(snakeCaseFileName \o <<"_">> \o snakeCaseVariableName)

----------------------------------------------------------------------------
(* Placeholder Decomposer *)

\* [a-zA-Z_$], the first character of the captured expression
VarFirst == Alpha \cup {"_", "$"}

\* [a-zA-Z_$0-9\[\]\.\?\!\'\(\)], the characters that follow
VarRest == Alpha \cup {"_", "$"} \cup Digits \cup {"[", "]", ".", "?", "!", "'", "(", ")"}

\* where the capture group starts when /\${?(...)/ is tried at position i
CaptureStart(text, i) ==
    IF i + 1 <= Len(text) /\ text[i + 1] = "{" THEN i + 2 ELSE i + 1

\* the pattern matches at i: the sigil, an optional brace, one character of
\* VarFirst and at least one of VarRest
MatchesAt(text, i) ==
    LET p == CaptureStart(text, i)
    IN  /\ i <= Len(text)
        /\ text[i] = "$"
        /\ p + 1 <= Len(text)
        /\ text[p] \in VarFirst
        /\ text[p + 1] \in VarRest

\* the last position of the greedy [...]+ run that starts at p + 1
RECURSIVE RunEnd(_, _)
RunEnd(text, q) ==
    IF q + 1 <= Len(text) /\ text[q + 1] \in VarRest THEN RunEnd(text, q + 1) ELSE q

\* seq without the elements equal to x
RECURSIVE without(_, _)
without(seq, x) ==
    IF seq = <<>> THEN <<>>
    ELSE IF Head(seq) = x THEN without(Tail(seq), x)
    ELSE <<Head(seq)>> \o without(Tail(seq), x)

\* a loop that pushes a capture only when it is not in the list yet
RECURSIVE ExecAll_SkipsRepeats(_, _)
ExecAll_SkipsRepeats(text, from) ==
    IF from > Len(text) THEN <<>>
    ELSE IF MatchesAt(text, from)
         THEN LET p == CaptureStart(text, from)
                  q == RunEnd(text, p + 1)
              IN  <<SubSeq(text, p, q)>>
                  \o without(ExecAll_SkipsRepeats(text, q + 1), SubSeq(text, p, q))
         ELSE ExecAll_SkipsRepeats(text, from + 1)

\* the while ((match = variableRegex.exec(text))) loop from lastIndex from - 1:
\* the captures match[1], in order
RECURSIVE ExecAll(_, _)
ExecAll(text, from) ==
    IF from > Len(text) THEN <<>>
    ELSE IF MatchesAt(text, from)
         THEN LET p == CaptureStart(text, from)
                  q == RunEnd(text, p + 1)
              IN  <<SubSeq(text, p, q)>> \o ExecAll(text, q + 1)
         ELSE ExecAll(text, from + 1)

extractVariables(text) == ExecAll(text, 1)

cleanVariableName(v) == keepOnly(v, Alpha)

\* one round of variables.forEach: text.replace(v, clean).replace(`${clean}`, `{clean}`)
canonicalizeOne(text, v) ==
    LET clean == cleanVariableName(v)
    IN  replaceFirst(replaceFirst(text, v, clean),
                     <<"$", "{">> \o clean \o <<"}">>,
                     <<"{">> \o clean \o <<"}">>)

RECURSIVE canonicalize(_, _)
canonicalize(text, variables) ==
    IF variables = <<>> THEN text
    ELSE canonicalize(canonicalizeOne(text, Head(variables)), Tail(variables))

\* the placeholders object: one property per clean name, in insertion order
RECURSIVE placeholderNames(_)
placeholderNames(variables) ==
    IF variables = <<>> THEN <<>>
    ELSE LET n == Len(variables)
             front == placeholderNames(SubSeq(variables, 1, n - 1))
             clean == cleanVariableName(variables[n])
         IN  IF clean \in Range(front) THEN front ELSE Append(front, clean)

translationPrefix ==
    <<"L","o","c","a","l","i","z","a","t","i","o","n","P","r","o","v","i","d","e","r",
      ".","i","n","s","t","a","n","c","e",".","l","1","0","n">>

translatableToken == <<".","t","r","a","n","s","l","a","t","a","b","l","e">>

\* `${translationPrefix}.${key}`
keyReference(key) == translationPrefix \o <<".">> \o key

RECURSIVE appendArguments(_, _)
appendArguments(str, variables) ==
    IF variables = <<>> THEN str
    ELSE appendArguments(str \o Head(variables) \o <<",", " ">>, Tail(variables))

\* the call-style replacement: prefix.key( v1, v2, ... with the last ", " sliced off )
callReplacement(keyName, variables) ==
    LET open == appendArguments(keyReference(keyName) \o <<"(">>, variables)
    IN  SubSeq(open, 1, Len(open) - 2) \o <<")">>

----------------------------------------------------------------------------
(* Resource Store: the parsed ARB object *)

\* JSON values of the top-level object: a string, a placeholder-metadata
\* object { placeholders: { name: {}, ... } }, or a number
Str(s) == [t |-> "str", s |-> s, ph |-> <<>>]

\* a metadata entry stored as a string
Meta_AsString(names) == [t |-> "str", s |-> <<>>, ph |-> names]

Meta(names) == [t |-> "obj", s |-> <<>>, ph |-> names]

Num == [t |-> "num", s |-> <<>>, ph |-> <<>>]

\* what a property read gives when the object has no such property
Undefined == [t |-> "undefined", s |-> <<>>, ph |-> <<>>]

\* what a property read gives for a method inherited from Object.prototype
Inherited == [t |-> "function", s |-> <<>>, ph |-> <<>>]

\* names every object made by JSON.parse inherits from Object.prototype
ObjectPrototype ==
    { <<"c","o","n","s","t","r","u","c","t","o","r">>,
      <<"t","o","S","t","r","i","n","g">>,
      <<"v","a","l","u","e","O","f">>,
      <<"h","a","s","O","w","n","P","r","o","p","e","r","t","y">>,
      <<"i","s","P","r","o","t","o","t","y","p","e","O","f">>,
      <<"t","o","L","o","c","a","l","e","S","t","r","i","n","g">>,
      <<"p","r","o","p","e","r","t","y","I","s","E","n","u","m","e","r","a","b","l","e">> }

Keys(doc) == { doc[i].k : i \in DOMAIN doc }

hasOwn(doc, key) == key \in Keys(doc)

ownValue(doc, key) == doc[CHOOSE i \in DOMAIN doc : doc[i].k = key].v

\* a key check that never finds the key
getProperty_NeverFound(doc, key) == Undefined

\* arbContent[key] as an expression
getProperty(doc, key) ==
    IF hasOwn(doc, key) THEN ownValue(doc, key)
    ELSE IF key \in ObjectPrototype THEN Inherited
    ELSE Undefined

\* the truthiness of a value in if (...)
truthy(value) ==
    CASE value.t = "str" -> value.s # <<>>
      [] value.t = "undefined" -> FALSE
      [] OTHER -> TRUE

\* arbContent[key] = value: an existing property keeps its place, a new one
\* goes last (no key of this program is an integer index)
setProperty(doc, key, value) ==
    IF hasOwn(doc, key)
    THEN [i \in DOMAIN doc |-> IF doc[i].k = key THEN [k |-> key, v |-> value] ELSE doc[i]]
    ELSE Append(doc, [k |-> key, v |-> value])

\* the file after fs.writeFileSync(path, JSON.stringify(doc, null, 2))
written(doc) == [fmt |-> "pretty", doc |-> doc]

\* What the file system does to one request.  read: readFileSync returns the
\* content ("ok") or throws.  write: writeFileSync writes everything ("ok"),
\* throws before it has opened the file ("refused"), throws after the open
\* with flag 'w' has cut the file to zero bytes ("truncated"), or throws with
\* only a part of the text written ("partial").  folders: the window has a
\* workspace folder.
NoFault == [read |-> "ok", write |-> "ok", folders |-> TRUE]

Faults ==
    [read : {"ok", "throws"},
     write : {"ok", "refused", "truncated", "partial"},
     folders : BOOLEAN]

\* a file of zero bytes, and a file holding a proper part of a serialized
\* object, which no JSON parser accepts
TruncatedFile == [fmt |-> "empty", doc |-> <<>>]

PartialFile == [fmt |-> "partial", doc |-> <<>>]

\* a read that takes any file for a well-formed one
readFile_AlwaysOk(file, io) == "ok"

\* fs.readFileSync(path, 'utf8') followed by the test of the text and by
\* JSON.parse: what becomes of the read
readFile(file, io) ==
    CASE io.read = "throws" -> "readThrew"
      [] io.read = "ok" /\ file.fmt = "empty" -> "readEmpty"
      [] io.read = "ok" /\ file.fmt = "partial" -> "parseThrew"
      [] OTHER -> "ok"

\* the file after fs.writeFileSync(path, JSON.stringify(doc, null, 2)) has
\* returned or thrown
writeFile(file, doc, io) ==
    CASE io.write = "ok" -> written(doc)
      [] io.write = "refused" -> file
      [] io.write = "truncated" -> TruncatedFile
      [] io.write = "partial" -> PartialFile

\* messages shown to the user, with the window call that shows them
\* (info: showInformationMessage, error: showErrorMessage)
MsgUpdated == "info: Successfully updated ARB file!"

MsgStringExists == "info: String already exists with key"

MsgKeyExists == "error: Key already exists"

MsgCompare == "error: Error comparing strings"

MsgNoVariables == "error: No variables found in the string"

MsgBothRequired == "error: Both variable name and translation must be provided!"

MsgReadFailed == "error: Failed to read ARB file"

MsgParseFailed == "error: Failed to parse ARB file"

MsgWriteFailed == "error: Failed to write to ARB file"

MsgNoArbFile == "error: No ARB file was specified. Some features may not work"

MsgGenFailed == "error: Failed to run flutter gen-l10n"

MsgGenRan == "info: Successfully ran flutter gen-l10n!"

\* modifyArbFile(key, translation) under the file system behaviour io; result
\* tells where the function ended, threw that it ended by an exception
modifyArbFileIO(key, translation, file, path, io) ==
    LET rd == readFile(file, io)
        Quit(result, msgs) ==
            [file |-> file, msgs |-> msgs, result |-> result, threw |-> FALSE]
    IN  CASE ~path -> Quit("noPath", <<>>)
          [] path /\ rd = "readThrew" ->
                 [file |-> file, msgs |-> <<>>, result |-> rd, threw |-> TRUE]
          [] path /\ rd = "readEmpty" -> Quit(rd, <<MsgReadFailed>>)
          [] path /\ rd = "parseThrew" -> Quit("parseFailed", <<MsgParseFailed>>)
          [] path /\ rd = "ok" /\ io.write # "ok" ->
                 [file |-> writeFile(file, setProperty(file.doc, key, Str(translation)), io),
                  msgs |-> <<MsgWriteFailed>>, result |-> "writeFailed", threw |-> FALSE]
          [] OTHER ->
                 [file |-> writeFile(file, setProperty(file.doc, key, Str(translation)), io),
                  msgs |-> <<MsgUpdated>>, result |-> "written", threw |-> FALSE]

\* modifyArbFile(key, translation) on a file that can be read and written
modifyArbFile(key, translation, file, path) ==
    modifyArbFileIO(key, translation, file, path, NoFault)

NoKey == <<"(no key)">>

NoText == <<"(no text)">>

\* the duplicate-by-value loop of addStringToArb
RECURSIVE scanPlain(_, _)
scanPlain(entries, str) ==
    IF entries = <<>> THEN [found |-> FALSE, key |-> NoKey, msgs |-> <<>>]
    ELSE LET e == Head(entries)
             rest == scanPlain(Tail(entries), str)
         IN  IF startsWith(e.k, <<"@">>) THEN rest
             ELSE IF e.v.t # "str"
                  THEN [rest EXCEPT !.msgs = <<MsgCompare>> \o @]
             ELSE IF toLowerCase(e.v.s) # toLowerCase(str) THEN rest
             ELSE [found |-> TRUE, key |-> e.k, msgs |-> <<MsgStringExists>>]

\* the duplicate-by-value loop of handleVariableString: toLowerCase is called
\* on every value, and throws a TypeError on one that is no string
RECURSIVE scanVariable(_, _)
scanVariable(entries, text) ==
    IF entries = <<>> THEN [found |-> FALSE, threw |-> FALSE, key |-> NoKey]
    ELSE LET e == Head(entries)
         IN  IF e.v.t # "str" THEN [found |-> FALSE, threw |-> TRUE, key |-> NoKey]
             ELSE IF toLowerCase(e.v.s) # toLowerCase(text)
                  THEN scanVariable(Tail(entries), text)
             ELSE [found |-> TRUE, threw |-> FALSE, key |-> e.k]

----------------------------------------------------------------------------
(* Extraction Orchestrator *)

\* Every handler result records, besides what the user can observe, the
\* return statement (or the throw) at which the handler ended:
\*   "NoPath"          no path: arbContent is undefined and reading
\*                     arbContent[keyName] throws; modifyArbFile returns at once
\*   "Unsupported"     addStringToArb throws on a string with a sigil
\*   "NoVariables"     handleVariableString found no variable
\*   "DuplicateKey"    the if (arbContent[keyName]) return
\*   "DuplicateValue"  the return inside the duplicate-by-value loop
\*   "ScanThrew"       toLowerCase threw inside the loop of handleVariableString
\*   "Inserted"        the end of the function, after the write
\*   "MissingInput"    manuallyAddTranslationHandler without both answers
\*   "Added"           the end of manuallyAddTranslationHandler, the entry written
\*   "ReadThrew"       readFileSync threw
\*   "ReadEmpty"       the file text is empty ('Failed to read ARB file')
\*   "ParseThrew"      JSON.parse threw in getArbContentFromWorkspace
\*   "ParseFailed"     JSON.parse threw in modifyArbFile, which caught it
\*   "WriteFailed"     writeFileSync threw in modifyArbFile, which caught it
\*   "WriteThrew"      writeFileSync threw in handleVariableString
\* effects lists what the request did outside itself, in the order of the
\* statements: "edit" (editor.edit issued), "write" (writeFileSync returned),
\* "writeFailed" (writeFileSync threw), "exec" (cp.exec called).

\* a duplicate return that serializes the object back to the file
returnExisting_Rewrites(exit, key, file, msgs) ==
    [exit |-> exit, status |-> "returned", key |-> key, file |-> written(file.doc),
     msgs |-> msgs, effects |-> <<"write">>]

\* a duplicate was found: the existing key is returned and nothing is written
returnExisting(exit, key, file, msgs) ==
    [exit |-> exit, status |-> "returned", key |-> key, file |-> file, msgs |-> msgs,
     effects |-> <<>>]

\* getArbContentFromWorkspace() did not return the object: the dialog gave no
\* path (it tells so, and the caller then reads a property of undefined), or
\* the read or the parse ended the request
noContent(rd, file) ==
    [exit |-> CASE rd = "noPath" -> "NoPath"
                [] rd = "readThrew" -> "ReadThrew"
                [] rd = "readEmpty" -> "ReadEmpty"
                [] rd = "parseThrew" -> "ParseThrew",
     status |-> "threw", key |-> NoKey, file |-> file,
     msgs |-> CASE rd = "noPath" -> <<MsgNoArbFile>>
                [] rd = "readEmpty" -> <<MsgReadFailed>>
                [] OTHER -> <<>>,
     effects |-> <<>>]

\* runFlutterGenL10n(): workspaceFolders![0] throws when the window has no
\* folder, otherwise the command is started and runs on
runFlutterGenL10n(io) == IF io.folders THEN "running" ELSE "threw"

\* the handler result from the store outcome r once the selection has been
\* replaced; gen tells what became of the call of runFlutterGenL10n
\* ("notRun" when the handler ends without the call)
Replaced(r, replacement, args, gen) ==
    [exit |-> r.exit, status |-> r.status, key |-> r.key, file |-> r.file,
     msgs |-> r.msgs, replacement |-> replacement, args |-> args,
     effects |-> r.effects \o <<"edit">> \o (IF gen = "running" THEN <<"exec">> ELSE <<>>),
     gen |-> gen, genL10n |-> (gen = "running")]

\* addStringToArb(str) under the file system behaviour io; path: pathToArbFile
\* is set once getArbContentFromWorkspace has returned
addStringToArbIO(str0, file, path, io) ==
    LET str == removeAll(str0, Quotes)
        keyName == generateKeyFromString(str)
        rd == IF path THEN readFile(file, io) ELSE "noPath"
        dup == scanPlain(file.doc, str)
        mod == modifyArbFileIO(keyName, str, file, path, io)
    IN  IF includes(str, "$")
        THEN [exit |-> "Unsupported", status |-> "threw", key |-> NoKey,
              file |-> file, msgs |-> <<>>, effects |-> <<>>]
        ELSE IF rd # "ok" THEN noContent(rd, file)
        ELSE IF truthy(getProperty(file.doc, keyName))
        THEN returnExisting("DuplicateKey", keyName, file, <<>>)
        ELSE IF dup.found
        THEN returnExisting("DuplicateValue", dup.key, file, dup.msgs)
        ELSE [exit |-> IF mod.result = "written" THEN "Inserted" ELSE "WriteFailed",
              status |-> "returned", key |-> keyName,
              file |-> mod.file, msgs |-> dup.msgs \o mod.msgs,
              effects |-> IF mod.result = "written" THEN <<"write">>
                          ELSE <<"writeFailed">>]

\* addStringToArb(str) on a file that can be read and written
addStringToArb(str0, file, path) == addStringToArbIO(str0, file, path, NoFault)

\* a request that starts the code generation although it ends early
Ended_StartsGenL10n(exit, status, file, msgs) ==
    [exit |-> exit, status |-> status, key |-> NoKey, file |-> file, msgs |-> msgs,
     replacement |-> NoText, args |-> <<>>, effects |-> <<"exec">>, gen |-> "running",
     genL10n |-> TRUE]

\* what a request leaves behind when it ends without replacing the selection
Ended(exit, status, file, msgs) ==
    [exit |-> exit, status |-> status, key |-> NoKey, file |-> file, msgs |-> msgs,
     replacement |-> NoText, args |-> <<>>, effects |-> <<>>, gen |-> "notRun",
     genL10n |-> FALSE]

\* handleVariableString(text, selection, editor) under the file system
\* behaviour io
handleVariableStringIO(text, file, path, io) ==
    LET variables == extractVariables(text)
        keyName == generateKeyFromString(text)
        rd == IF path THEN readFile(file, io) ELSE "noPath"
        none == noContent(rd, file)
        dup == scanVariable(file.doc, text)
        value == removeAll(canonicalize(text, variables), Quotes)
        withKey == setProperty(file.doc, keyName, Str(value))
        withMeta == setProperty(withKey, <<"@">> \o keyName,
                                Meta(placeholderNames(variables)))
        gen == runFlutterGenL10n(io)
    IN  IF variables = <<>>
        THEN Ended("NoVariables", "failed", file, <<MsgNoVariables>>)
        ELSE IF rd # "ok" THEN Ended(none.exit, none.status, file, none.msgs)
        ELSE IF truthy(getProperty(file.doc, keyName))
        THEN Replaced(returnExisting("DuplicateKey", keyName, file, <<MsgKeyExists>>),
                      keyReference(keyName), <<>>, "notRun")
        ELSE IF dup.threw THEN Ended("ScanThrew", "threw", file, <<>>)
        ELSE IF dup.found
        THEN Replaced(returnExisting("DuplicateValue", dup.key, file,
                                     <<MsgStringExists>>),
                      keyReference(dup.key), <<>>, "notRun")
        ELSE IF io.write # "ok"
        THEN [exit |-> "WriteThrew", status |-> "threw", key |-> NoKey,
              file |-> writeFile(file, withMeta, io), msgs |-> <<>>,
              replacement |-> callReplacement(keyName, variables),
              args |-> variables, effects |-> <<"edit", "writeFailed">>,
              gen |-> "notRun", genL10n |-> FALSE]
        ELSE [exit |-> "Inserted", status |-> "returned", key |-> keyName,
              file |-> writeFile(file, withMeta, io), msgs |-> <<MsgUpdated>>,
              replacement |-> callReplacement(keyName, variables),
              args |-> variables,
              effects |-> <<"edit", "write">>
                          \o (IF gen = "running" THEN <<"exec">> ELSE <<>>),
              gen |-> gen, genL10n |-> (gen = "running")]

\* handleVariableString(text, selection, editor) on a file that can be read
\* and written, in a window with a workspace folder
handleVariableString(text, file, path) ==
    handleVariableStringIO(text, file, path, NoFault)

\* the text addSelectionToArbHandler hands to addStringToArb
plainText(text) == trim(removeAll(replaceFirst(text, translatableToken, <<>>), Quotes))

\* addSelectionToArbHandler with the selection text `text` and
\* andReplaceSelectionWithKey = true, under the file system behaviour io
addSelectionToArbHandlerIO(text, file, path, io) ==
    LET r == addStringToArbIO(plainText(text), file, path, io)
    IN  IF includes(text, "$") THEN handleVariableStringIO(text, file, path, io)
        ELSE IF r.status # "returned" THEN Ended(r.exit, r.status, r.file, r.msgs)
        ELSE Replaced(r, keyReference(r.key), <<>>, runFlutterGenL10n(io))

addSelectionToArbHandler(text, file, path) ==
    addSelectionToArbHandlerIO(text, file, path, NoFault)

\* manuallyAddTranslationHandler with the two answers of the input boxes, under
\* the file system behaviour io
manuallyAddTranslationHandlerIO(variableName, translatedPhrase, file, path, editorFile, io) ==
    LET key == generateKey(variableName, editorFile)
        mod == modifyArbFileIO(key, translatedPhrase, file, path, io)
        gen == runFlutterGenL10n(io)
    IN  IF variableName = <<>> \/ translatedPhrase = <<>>
        THEN Ended("MissingInput", "failed", file, <<MsgBothRequired>>)
        ELSE IF mod.threw THEN Ended("ReadThrew", "threw", file, <<>>)
        ELSE [exit |-> CASE mod.result = "written" -> "Added"
                         [] mod.result = "noPath" -> "NoPath"
                         [] mod.result = "readEmpty" -> "ReadEmpty"
                         [] mod.result = "parseFailed" -> "ParseFailed"
                         [] mod.result = "writeFailed" -> "WriteFailed",
              status |-> "done", key |-> key, file |-> mod.file,
              msgs |-> mod.msgs, replacement |-> NoText, args |-> <<>>,
              effects |-> (CASE mod.result = "written" -> <<"write">>
                             [] mod.result = "writeFailed" -> <<"writeFailed">>
                             [] OTHER -> <<>>)
                          \o (IF gen = "running" THEN <<"exec">> ELSE <<>>),
              gen |-> gen, genL10n |-> (gen = "running")]

manuallyAddTranslationHandler(variableName, translatedPhrase, file, path, editorFile) ==
    manuallyAddTranslationHandlerIO(variableName, translatedPhrase, file, path,
                                    editorFile, NoFault)

----------------------------------------------------------------------------
(* Inputs of the model *)

\* the largest number of entries of the ARB object that the model explores
MaxEntries == 3

\* the largest number of pieces of a generated literal
MaxPieces == 3

HelloWorld == <<"\"","H","e","l","l","o"," ","W","o","r","l","d","\"">>

helloWorldLower == <<"\"","h","e","l","l","o"," ","w","o","r","l","d","\"">>

SaveLower == <<"'","s","a","v","e","'">>

EmptyLiteral == <<"\"","\"">>

ToStringLiteral == <<"\"","T","o"," ","s","t","r","i","n","g","\"">>

HelloOwe ==
    <<"\"","H","e","l","l","o"," ","$","n","a","m","e",","," ","y","o","u"," ",
      "o","w","e"," ","$","{","a","m","o","u","n","t","}"," ",
      "d","o","l","l","a","r","s","\"">>

\* two selections made without the surrounding quotes
BareId == <<"$","i","d">>

BareIdUpper == <<"$","I","D">>

OneLetter == <<"\"","$","x","\"">>

Literals ==
    { HelloWorld, helloWorldLower, SaveLower, EmptyLiteral, ToStringLiteral,
      HelloOwe, BareId, BareIdUpper, OneLetter }

\* literals built from pieces, for the claims about the decomposer
Pieces ==
    { <<"$","a","b">>, <<"$","{","a","b","}">>, <<"$","{","a",".","b","}">>,
      <<"a",".","b">>, <<"a","b">>, <<" ">>, <<"$","x">>, <<"'">> }

RECURSIVE Generated(_)
Generated(n) ==
    IF n = 0 THEN { <<>> }
    ELSE LET shorter == Generated(n - 1)
         IN  shorter \cup { s \o p : s \in shorter, p \in Pieces }

VariableNames == { <<>>, <<"s","a","v","e">> }

Phrases == { <<>>, <<"S","a","v","e">>, <<"O","k">> }

HomePage == <<"h","o","m","e","P","a","g","e">>

FileNames == { <<>>, HomePage, <<"@","f">> }

EmptyFile == [fmt |-> "hand", doc |-> <<>>]

\* hand-written files the extension may be pointed at
GreetingFile ==
    [fmt |-> "hand",
     doc |-> << [k |-> <<"g","r","e","e","t","i","n","g">>,
                 v |-> Str(<<"H","e","l","l","o"," ","W","o","r","l","d">>)],
                [k |-> <<"t","i","t","l","e">>,
                 v |-> Str(<<"T","o"," ","S","t","r","i","n","g">>)] >>]

CountFile ==
    [fmt |-> "hand", doc |-> << [k |-> <<"c","o","u","n","t">>, v |-> Num] >>]

InitialFiles == { EmptyFile, GreetingFile, CountFile }

----------------------------------------------------------------------------
(* The requests *)

NoRequest ==
    [op |-> "none", text |-> NoText, name |-> NoText, exit |-> "none",
     status |-> "none", key |-> NoKey, replacement |-> NoText, args |-> <<>>,
     msgs |-> <<>>, effects |-> <<>>, gen |-> "notRun", genL10n |-> FALSE,
     before |-> EmptyFile, repeat |-> FALSE, io |-> NoFault]

\* what is kept of a request: its outcome r, the file it found (before), the
\* file system behaviour it met (io), and whether it repeats the request
\* before it
Completed(op, text, name, r, io) ==
    [op |-> op, text |-> text, name |-> name, exit |-> r.exit, status |-> r.status,
     key |-> r.key, replacement |-> r.replacement, args |-> r.args, msgs |-> r.msgs,
     effects |-> r.effects, gen |-> r.gen, genL10n |-> r.genL10n, before |-> arbFile,
     repeat |-> (op = "addToArb" /\ last.op = "addToArb" /\ last.text = text
                 /\ last.status = "returned"),
     io |-> io]

\* the command extension.initializeArbPath, the user choosing a file (run with
\* the path set, it sets the path again and changes nothing kept here)
InitializeArbPath ==
    /\ ~pathToArbFile
    /\ pathToArbFile' = TRUE
    /\ last' = [NoRequest EXCEPT !.op = "initializeArbPath", !.before = arbFile]
    /\ UNCHANGED <<arbFile, editorText, activeFile, others>>

\* the command extension.addToArb on a selected literal, under the file system
\* behaviour io; without an active editor the handler returns at once; when
\* no path is set the dialog of getArbContentFromWorkspace asks for one, and
\* choose tells whether the user selects a file; a request that ends before
\* it reads the file ("NoVariables") never opens the dialog
AddToArbIO(text, choose, io) ==
    /\ activeFile # <<>>
    /\ text \in editorText
    /\ pathToArbFile => choose
    /\ \E r \in { addSelectionToArbHandlerIO(text, arbFile, pathToArbFile \/ choose, io) } :
          /\ Len(r.file.doc) <= MaxEntries
          /\ arbFile' = r.file
          /\ last' = Completed("addToArb", text, NoText, r, io)
          /\ pathToArbFile' = IF r.exit = "NoVariables" THEN pathToArbFile
                              ELSE pathToArbFile \/ choose
    /\ UNCHANGED <<editorText, activeFile, others>>

\* the command extension.addToArb with a file that can be read and written
AddToArb(text, choose) == AddToArbIO(text, choose, NoFault)

\* the command extension.modifyArb under the file system behaviour io
ModifyArbIO(variableName, translatedPhrase, io) ==
    /\ \E r \in { manuallyAddTranslationHandlerIO(variableName, translatedPhrase, arbFile,
                                                  pathToArbFile, activeFile, io) } :
          /\ Len(r.file.doc) <= MaxEntries
          /\ arbFile' = r.file
          /\ last' = Completed("modifyArb", translatedPhrase, variableName, r, io)
    /\ UNCHANGED <<pathToArbFile, editorText, activeFile, others>>

\* the command extension.modifyArb with a file that can be read and written
ModifyArb(variableName, translatedPhrase) ==
    ModifyArbIO(variableName, translatedPhrase, NoFault)

\* the callback of cp.exec('melos run l10n') of the last request: the command
\* has ended with an error ("failed"), with text on stderr ("stderr") or
\* cleanly ("ok")
GenL10nExit(outcome) ==
    /\ last.gen = "running"
    /\ last' = [last EXCEPT
                  !.gen = outcome,
                  !.msgs = @ \o (CASE outcome = "failed" -> <<MsgGenFailed>>
                                   [] outcome = "stderr" -> <<>>
                                   [] outcome = "ok" -> <<MsgGenRan>>)]
    /\ UNCHANGED <<arbFile, pathToArbFile, editorText, activeFile, others>>

\* the bulk command has not been run
NoBulk ==
    [contents |-> <<>>, matches |-> <<>>, todo |-> <<>>, selected |-> <<>>,
     match |-> <<>>, range |-> <<0, 0>>, found |-> <<>>, steps |-> 0, runs |-> 0]

\* no file text kept, no request pending, no document text kept, no bulk run
OneRequestAtATime ==
    /\ arbText = <<>>
    /\ requests = <<>>
    /\ document = <<>>
    /\ bulk = NoBulk

Init ==
    /\ arbFile \in InitialFiles
    /\ pathToArbFile = FALSE
    /\ editorText = Literals
    /\ activeFile \in FileNames
    /\ last = NoRequest
    /\ OneRequestAtATime

Next ==
    \/ InitializeArbPath
    \/ \E text \in editorText, choose \in BOOLEAN : AddToArb(text, choose)
    \/ \E variableName \in VariableNames, translatedPhrase \in Phrases :
           ModifyArb(variableName, translatedPhrase)

Spec == Init /\ [][Next]_vars

\* the same program run on a file that starts as the empty object
InitEmpty == Init /\ arbFile = EmptyFile

SpecEmpty == InitEmpty /\ [][Next]_vars

\* one generated literal, extracted (and extracted again) into an empty file
InitText ==
    /\ arbFile = EmptyFile
    /\ pathToArbFile = TRUE
    /\ editorText \in { {s} : s \in Generated(MaxPieces) }
    /\ activeFile = HomePage
    /\ last = NoRequest
    /\ OneRequestAtATime

NextText == \E text \in editorText : AddToArb(text, TRUE)

SpecText == InitText /\ [][NextText]_vars

\* the program with a file system that can fail, a window that may have no
\* workspace folder and the code generation command ending
InitIO ==
    /\ arbFile \in { EmptyFile, TruncatedFile, PartialFile }
    /\ pathToArbFile = FALSE
    /\ editorText = { HelloWorld, BareId, OneLetter }
    /\ activeFile = HomePage
    /\ last = NoRequest
    /\ OneRequestAtATime

NextIO ==
    \/ InitializeArbPath
    \/ \E text \in editorText, choose \in BOOLEAN, io \in Faults :
           AddToArbIO(text, choose, io)
    \/ \E variableName \in VariableNames, translatedPhrase \in Phrases, io \in Faults :
           ModifyArbIO(variableName, translatedPhrase, io)
    \/ \E outcome \in {"ok", "failed", "stderr"} : GenL10nExit(outcome)

SpecIO == InitIO /\ [][NextIO]_vars

\* literals for the claims about the text that is stored and its key
DontStop == <<"\"","D","o","n","'","t"," ","s","t","o","p","\"">>

Digits123 == <<"\"","1","2","3","\"">>

HiToken == <<"\"","H","i"," ","{","a","b","}","\"">>

HiVariable == <<"\"","H","I"," ","$","{","a","b","}","\"">>

HelloCommaWorld ==
    <<"\"","H","e","l","l","o",","," ","W","o","r","l","d","!","\"">>

PhraseLiterals == { DontStop, Digits123, HiToken, HiVariable, HelloWorld, HelloCommaWorld }

\* the same program with these literals in the editor
InitPhrase ==
    /\ arbFile = EmptyFile
    /\ pathToArbFile = FALSE
    /\ editorText = PhraseLiterals
    /\ activeFile \in { HomePage, <<>> }
    /\ last = NoRequest
    /\ OneRequestAtATime

SpecPhrase == InitPhrase /\ [][Next]_vars

----------------------------------------------------------------------------
(* Properties *)

\* the key the extraction of a selection derives from its text
derivedKey(text) ==
    generateKeyFromString(IF includes(text, "$") THEN text ELSE plainText(text))

\* the entries of doc under plain keys whose string value equals str ignoring case
sameValue(doc, str) ==
    { i \in DOMAIN doc : /\ ~startsWith(doc[i].k, <<"@">>)
                         /\ doc[i].v.t = "str"
                         /\ toLowerCase(doc[i].v.s) = toLowerCase(str) }

\* C1: extracting the same raw literal twice in succession, with no key given
\* by the user, returns the same key both times, and the second extraction
\* leaves the resource file (its entries and their number) unchanged.
C1_Idempotent ==
    [][ ( /\ last.op = "addToArb" /\ last.status = "returned"
          /\ last'.op = "addToArb" /\ last'.text = last.text )
        => ( /\ last'.status = "returned"
             /\ last'.key = last.key
             /\ arbFile' = arbFile ) ]_vars

\* a literal with variables has been extracted a second time
C1_Witness ==
    /\ last.repeat /\ last.status = "returned"
    /\ includes(last.text, "$")
    /\ hasOwn(arbFile.doc, last.key)

\* C2: if the document holds a plain entry k whose value equals the extracted
\* plain text ignoring letter case, and the derived key is not itself an
\* entry, the extraction returns such a k and creates no entry.
C2_CaseInsensitiveDuplicate ==
    LET D == last.before.doc
        str == removeAll(last.text, Quotes)
    IN  ( /\ last.op = "addToArb" /\ pathToArbFile
          /\ ~includes(last.text, "$")
          /\ sameValue(D, str) # {}
          /\ ~hasOwn(D, derivedKey(last.text)) )
        => ( /\ last.status = "returned"
             /\ \E i \in sameValue(D, str) : last.key = D[i].k
             /\ arbFile.doc = D )

\* C3: when an extraction, plain or parameterized, ends because the derived key
\* is already an entry or because an existing value matches, it returns that
\* existing key as a success and the resource file is what it was before.
C3_ShortCircuitKeepsStore ==
    ( /\ last.op = "addToArb"
      /\ \/ last.exit = "DuplicateKey" /\ hasOwn(last.before.doc, last.key)
         \/ last.exit = "DuplicateValue" )
    => ( /\ last.status = "returned"
         /\ hasOwn(last.before.doc, last.key)
         /\ arbFile = last.before )

\* a parameterized extraction ended at a matching value and left the file as
\* it was
C3_Witness ==
    /\ last.op = "addToArb" /\ last.exit = "DuplicateValue"
    /\ includes(last.text, "$")
    /\ last.status = "returned" /\ arbFile = last.before

\* C4: the duplicate-by-key check of an extraction is true if and only if the
\* document has an entry under exactly the derived key, whatever its value.
C4_KeyCheckIffPresent ==
    ( /\ last.op = "addToArb"
      /\ last.exit \in {"DuplicateKey", "DuplicateValue", "ScanThrew", "Inserted"} )
    => ( last.exit = "DuplicateKey" <=> hasOwn(last.before.doc, derivedKey(last.text)) )

\* C5: an entry whose value is no string never aborts an extraction: the
\* duplicate-by-value scan skips it and goes on.
C5_ScanSkipsNonStrings ==
    ( /\ last.op = "addToArb" /\ pathToArbFile
      /\ \E i \in DOMAIN last.before.doc : last.before.doc[i].v.t # "str" )
    => last.status # "threw"

\* the names that occur as {name} tokens in a value
placeholderTokens(value) ==
    { SubSeq(value, i + 1, j - 1) :
        <<i, j>> \in { ij \in (DOMAIN value) \X (DOMAIN value) :
                         /\ ij[1] + 1 < ij[2]
                         /\ value[ij[1]] = "{" /\ value[ij[2]] = "}"
                         /\ \A m \in (ij[1] + 1)..(ij[2] - 1) : value[m] \in Alpha } }

\* C6: from the empty document on, for every plain key k the entry @k exists
\* if and only if the value under k holds at least one {name} token, and its
\* placeholder names are exactly the names of those tokens.
C6_MetadataIffPlaceholders ==
    \A i \in DOMAIN arbFile.doc :
        LET e == arbFile.doc[i]
            metaKey == <<"@">> \o e.k
        IN  (~startsWith(e.k, <<"@">>) /\ e.v.t = "str")
            => /\ hasOwn(arbFile.doc, metaKey) <=> placeholderTokens(e.v.s) # {}
               /\ hasOwn(arbFile.doc, metaKey)
                  => /\ ownValue(arbFile.doc, metaKey).t = "obj"
                     /\ Range(ownValue(arbFile.doc, metaKey).ph) = placeholderTokens(e.v.s)

\* the number of sigils of a text
RECURSIVE sigils(_)
sigils(text) ==
    IF text = <<>> THEN 0
    ELSE (IF Head(text) = "$" THEN 1 ELSE 0) + sigils(Tail(text))

HelloOweCanonical ==
    <<"H","e","l","l","o"," ","n","a","m","e",","," ","y","o","u"," ",
      "o","w","e"," ","{","a","m","o","u","n","t","}"," ",
      "d","o","l","l","a","r","s">>

\* C7: every interpolation is rewritten, ${expr} to {cleanName} and $expr to
\* cleanName without its sigil: "Hello $name, you owe ${amount} dollars" is
\* stored as "Hello name, you owe {amount} dollars" with the placeholders name
\* and amount, and no sigil that introduced a token stays in a stored value.
C7_SigilsRewritten ==
    ( /\ last.op = "addToArb" /\ last.exit = "Inserted" /\ includes(last.text, "$") )
    => /\ last.text = HelloOwe
          => /\ getProperty(arbFile.doc, last.key) = Str(HelloOweCanonical)
             /\ getProperty(arbFile.doc, <<"@">> \o last.key)
                  = Meta(<< <<"n","a","m","e">>, <<"a","m","o","u","n","t">> >>)
       /\ sigils(last.text) = Len(last.args)
          => ~includes(getProperty(arbFile.doc, last.key).s, "$")

\* the interpolation matches of a text from position i on, none starting at or
\* before position covered: one token per match, in order of appearance
RECURSIVE tokensFrom(_, _, _)
tokensFrom(text, i, covered) ==
    IF i > Len(text) THEN <<>>
    ELSE IF i > covered /\ MatchesAt(text, i)
         THEN LET p == CaptureStart(text, i)
                  q == CHOOSE e \in (p + 1)..Len(text) :
                           /\ \A m \in (p + 1)..e : text[m] \in VarRest
                           /\ (e = Len(text) \/ text[e + 1] \notin VarRest)
              IN  <<SubSeq(text, p, q)>> \o tokensFrom(text, i + 1, q)
         ELSE tokensFrom(text, i + 1, covered)

\* the pieces of s between the occurrences of ", "
RECURSIVE commaSeparated(_)
commaSeparated(s) ==
    LET i == indexOf(s, <<",", " ">>)
    IN  IF i = 0 THEN <<s>>
        ELSE <<SubSeq(s, 1, i - 1)>> \o commaSeparated(SubSeq(s, i + 2, Len(s)))

\* the argument list of a call-style replacement prefix.key(arg1, arg2, ...)
callArguments(replacement, key) ==
    LET head == Len(keyReference(key)) + 1
    IN  commaSeparated(SubSeq(replacement, head + 1, Len(replacement) - 1))

\* C8: the tokens of a literal are its interpolation matches, one per match,
\* in order of appearance and with repetitions kept, and the arguments of the
\* call-style replacement prefix.key(arg1, arg2, ...) are exactly that sequence.
C8_ArgumentsAreTokens ==
    ( /\ last.op = "addToArb" /\ last.exit = "Inserted" /\ includes(last.text, "$") )
    => /\ last.args = tokensFrom(last.text, 1, 0)
       /\ SubSeq(last.replacement, 1, Len(keyReference(last.key)) + 1)
            = keyReference(last.key) \o <<"(">>
       /\ last.replacement[Len(last.replacement)] = ")"
       /\ callArguments(last.replacement, last.key) = last.args

\* a literal that names the same variable twice has been extracted
C8_Witness ==
    /\ last.op = "addToArb" /\ last.exit = "Inserted"
    /\ Len(last.args) = 2 /\ last.args[1] = last.args[2]
    /\ callArguments(last.replacement, last.key) = last.args

HomePageSave == <<"h","o","m","e","P","a","g","e","S","a","v","e">>

\* camelCase(snakeCase(c) + "_" + snakeCase("save")) written out for the
\* contexts c of the model
expectedKey(c) ==
    CASE c = HomePage -> HomePageSave
      [] c = <<>> -> <<"S","a","v","e">>
      [] c = <<"@","f">> -> <<"@","f","S","a","v","e">>

C10_NoPlainUnderReservedKey ==
    \A i \in DOMAIN arbFile.doc :
        startsWith(arbFile.doc[i].k, <<"@">>) => arbFile.doc[i].v.t # "str"

\* the place of the first effect e in the list of effects, 0 when it has none
firstEffect(effects, e) ==
    IF e \in Range(effects)
    THEN CHOOSE i \in DOMAIN effects :
             effects[i] = e /\ \A j \in 1..(i - 1) : effects[j] # e
    ELSE 0

\* C11: when the write of the resource file fails during an extraction, the
\* extraction ends as failed: no key is returned, the selected text is not
\* replaced by a reference to the key, and code generation is not started.
C11_WriteFailureEndsExtraction ==
    ( /\ last.op = "addToArb"
      /\ last.io.write # "ok"
      /\ "writeFailed" \in Range(last.effects) )
    => ( /\ last.status # "returned"
         /\ last.key = NoKey
         /\ last.replacement = NoText
         /\ "edit" \notin Range(last.effects)
         /\ "exec" \notin Range(last.effects) )

\* C12: a write that fails leaves in the resource file either all of what it
\* held before or all of the new serialized document.
C12_PersistAllOrNothing ==
    ( /\ last.op \in {"addToArb", "modifyArb"}
      /\ "writeFailed" \in Range(last.effects) )
    => ( \/ arbFile = last.before
         \/ arbFile.fmt = "pretty" )

\* C13: every request that has written the resource file (plain extraction,
\* extraction with variables, manual add) has then, after the write, started
\* the code generation command; when that command fails the user is told and
\* the written file stays as it is.
C13_PersistThenGenerate ==
    ( /\ last.op \in {"addToArb", "modifyArb"}
      /\ "write" \in Range(last.effects) )
    => ( /\ "exec" \in Range(last.effects)
         /\ firstEffect(last.effects, "write") < firstEffect(last.effects, "exec")
         /\ arbFile.fmt = "pretty"
         /\ (last.gen = "failed" => MsgGenFailed \in Range(last.msgs)) )

\* C14: when the resource file cannot be read, or what it holds is no valid
\* JSON, a request that gets as far as reading it fails: no key is returned,
\* the selection is not replaced, nothing is written and the file stays as it
\* was.
C14_UnreadableFileFailsRequest ==
    ( /\ last.op \in {"addToArb", "modifyArb"}
      /\ last.exit \notin {"Unsupported", "NoVariables", "MissingInput", "NoPath"}
      /\ \/ last.io.read = "throws"
         \/ last.before.fmt \in {"empty", "partial"} )
    => ( /\ last.status # "returned"
         /\ last.replacement = NoText
         /\ Range(last.effects) \cap {"write", "writeFailed", "edit"} = {}
         /\ arbFile = last.before )

\* an extraction has met a file that holds a part of a document only, with a
\* file system that reads and writes
C14_Witness ==
    /\ last.op = "addToArb" /\ last.io = NoFault
    /\ last.before = PartialFile /\ last.exit = "ParseThrew"
    /\ arbFile = PartialFile

\* C15: every extraction that fails and every duplicate short-circuit shows
\* the user a message before the request ends.
C15_NoSilentFailure ==
    ( /\ last.op = "addToArb"
      /\ \/ last.status \in {"threw", "failed"}
         \/ last.exit \in {"DuplicateKey", "DuplicateValue"} )
    => last.msgs # <<>>

\* C16: a text that holds the sigil but no interpolation token fails with
\* "no variables found": the document is not changed, the selection is not
\* replaced and code generation is not run.
C16_NoTokenNoChange ==
    ( /\ last.op = "addToArb"
      /\ includes(last.text, "$")
      /\ tokensFrom(last.text, 1, 0) = <<>> )
    => ( /\ last.exit = "NoVariables" /\ last.status = "failed"
         /\ last.msgs = <<MsgNoVariables>>
         /\ arbFile = last.before
         /\ last.replacement = NoText
         /\ last.effects = <<>>
         /\ ~last.genL10n )

\* a text with a sigil after other text, and no token, has been refused
C16_Witness ==
    /\ last.op = "addToArb" /\ last.exit = "NoVariables"
    /\ includes(last.text, "$") /\ last.text[1] # "$"
    /\ arbFile = EmptyFile /\ last.effects = <<>>

\* the raw literal without one leading and one trailing quote character
stripOuterQuotes(raw) ==
    LET from == IF raw # <<>> /\ raw[1] \in Quotes THEN 2 ELSE 1
        to == IF Len(raw) >= from /\ raw[Len(raw)] \in Quotes THEN Len(raw) - 1
              ELSE Len(raw)
    IN  SubSeq(raw, from, to)

\* C17: the value stored for a plain literal is the literal without one leading
\* and one trailing quote character, the quotes and apostrophes inside kept.
C17_OnlyOuterQuotesRemoved ==
    ( /\ last.op = "addToArb" /\ last.exit = "Inserted"
      /\ ~includes(last.text, "$") )
    => getProperty(arbFile.doc, last.key) = Str(stripOuterQuotes(last.text))

\* the entries of doc whose value is the canonical form of text, ignoring case
sameCanonicalValue(doc, text) ==
    sameValue(doc, removeAll(canonicalize(text, tokensFrom(text, 1, 0)), Quotes))

\* C18: an extraction with variables whose canonical text (quotes removed,
\* interpolations replaced) equals, ignoring case, the value of an entry k, and
\* whose derived key is no entry, returns such a k and inserts nothing.
C18_CanonicalDuplicate ==
    LET D == last.before.doc
    IN  ( /\ last.op = "addToArb" /\ pathToArbFile
          /\ includes(last.text, "$") /\ tokensFrom(last.text, 1, 0) # <<>>
          /\ ~hasOwn(D, derivedKey(last.text))
          /\ sameCanonicalValue(D, last.text) # {} )
        => ( /\ last.status = "returned"
             /\ \E i \in sameCanonicalValue(D, last.text) : last.key = D[i].k
             /\ arbFile.doc = D )

\* C19: no entry is ever stored under the empty key.
C19_NoEmptyKey ==
    ~hasOwn(arbFile.doc, <<>>)

\* C20: with no context label the key of a manual add is the camelCase form of
\* the key name alone: "save" gives "save".
C20_EmptyContextKey ==
    ( /\ last.op = "modifyArb" /\ last.exit = "Added"
      /\ activeFile = <<>> /\ last.name = <<"s","a","v","e">> )
    => ( /\ last.key = <<"s","a","v","e">>
         /\ hasOwn(arbFile.doc, <<"s","a","v","e">>) )

\* the last position of the capture group that starts at p
captureEnd(text, p) ==
    CHOOSE e \in (p + 1)..Len(text) :
        /\ \A m \in (p + 1)..e : text[m] \in VarRest
        /\ (e = Len(text) \/ text[e + 1] \notin VarRest)

\* every interpolation match of text from position i on is brace-delimited:
\* the sigil, an opening brace, the expression and a closing brace
RECURSIVE allBraced(_, _)
allBraced(text, i) ==
    IF i > Len(text) THEN TRUE
    ELSE IF MatchesAt(text, i)
         THEN LET p == CaptureStart(text, i)
                  q == captureEnd(text, p)
              IN  /\ p = i + 2
                  /\ q < Len(text) /\ text[q + 1] = "}"
                  /\ allBraced(text, q + 2)
         ELSE allBraced(text, i + 1)

\* text from position i on with every brace-delimited interpolation replaced,
\* where it stands, by its {cleanName} token and all other text kept
RECURSIVE rewrittenInPlace(_, _)
rewrittenInPlace(text, i) ==
    IF i > Len(text) THEN <<>>
    ELSE IF MatchesAt(text, i)
         THEN LET p == CaptureStart(text, i)
                  q == captureEnd(text, p)
              IN  IF p = i + 2 /\ q < Len(text) /\ text[q + 1] = "}"
                  THEN <<"{">> \o cleanVariableName(SubSeq(text, p, q)) \o <<"}">>
                           \o rewrittenInPlace(text, q + 2)
                  ELSE SubSeq(text, i, q) \o rewrittenInPlace(text, q + 1)
         ELSE <<text[i]>> \o rewrittenInPlace(text, i + 1)

\* C22: canonicalization replaces each interpolation where it was matched: for
\* a text whose interpolations are all brace-delimited the stored value is the
\* text with each ${expression} replaced in place by {cleanName} and the text
\* outside the interpolations unchanged (quote characters aside), also when an
\* expression occurs earlier in the text as literal text.
C22_RewrittenInPlace ==
    ( /\ last.op = "addToArb" /\ last.exit = "Inserted"
      /\ tokensFrom(last.text, 1, 0) # <<>>
      /\ allBraced(last.text, 1) )
    => getProperty(arbFile.doc, last.key)
         = Str(removeAll(rewrittenInPlace(last.text, 1), Quotes))

\* identifier, index, dot and optional-chain characters
ExpressionChars == Alpha \cup Digits \cup {"_", "$", "[", "]", ".", "?"}

\* C23: every token of an extraction, and so every argument of the call-style
\* replacement, consists of identifier, index, dot and optional-chain characters
\* only: it holds no quote character of the literal.
C23_TokensAreExpressions ==
    ( /\ last.op = "addToArb" /\ last.exit = "Inserted"
      /\ includes(last.text, "$") )
    => \A n \in 1..Len(last.args) : Range(last.args[n]) \subseteq ExpressionChars

\* text holds a well-formed interpolation: the sigil and an identifier, or the
\* sigil and a brace-delimited expression that starts with an identifier
hasInterpolation(text) ==
    \E i \in 1..(Len(text) - 1) :
        /\ text[i] = "$"
        /\ \/ text[i + 1] \in Alpha \cup {"_"}
           \/ /\ text[i + 1] = "{"
              /\ i + 2 <= Len(text) /\ text[i + 2] \in Alpha \cup {"_"}
              /\ \E j \in (i + 3)..Len(text) : text[j] = "}"

\* C24: a text with a well-formed interpolation yields a token, whatever the
\* length of the identifier: its extraction does not end with "no variables
\* found".
C24_EveryInterpolationYieldsToken ==
    ( /\ last.op = "addToArb" /\ hasInterpolation(last.text) )
    => last.exit # "NoVariables"

\* the first entry of doc, in iteration order, under a plain key whose string
\* value equals str ignoring case
firstSameValue(doc, str) ==
    CHOOSE i \in sameValue(doc, str) : \A j \in sameValue(doc, str) : i <= j

\* C25: in the plain path the key check comes first: if the derived key k is an
\* entry, k is returned, whatever other entry holds an equal value; otherwise
\* the first key, in iteration order and among the plain keys, whose value
\* equals the text ignoring case is returned; only if neither check matches is
\* a new entry inserted.
C25_KeyCheckThenValueCheck ==
    LET D == last.before.doc
        str == plainText(last.text)
        k == derivedKey(last.text)
    IN  ( /\ last.op = "addToArb" /\ pathToArbFile
          /\ ~includes(last.text, "$") )
        => IF hasOwn(D, k)
           THEN last.status = "returned" /\ last.key = k /\ arbFile.doc = D
           ELSE IF sameValue(D, str) # {}
           THEN /\ last.status = "returned" /\ arbFile.doc = D
                /\ last.key = D[firstSameValue(D, str)].k
           ELSE /\ last.exit = "Inserted" /\ last.key = k
                /\ getProperty(arbFile.doc, k) = Str(str)

\* C26: an extraction that inserts a new entry replaces the source text only
\* after the resource file has been written: whenever the replacement has been
\* issued, a successful write came before it.
C26_ReplaceAfterPersist ==
    ( /\ last.op = "addToArb"
      /\ last.exit \in {"Inserted", "WriteFailed", "WriteThrew"}
      /\ "edit" \in Range(last.effects) )
    => ( /\ "write" \in Range(last.effects)
         /\ firstEffect(last.effects, "write") < firstEffect(last.effects, "edit") )

\* C27: when a plain extraction of a text returns key k, the document then
\* maps k to a string that equals the normalized text ignoring letter case,
\* also when two different texts derive the same key.
C27_ReturnedKeyHoldsText ==
    ( /\ last.op = "addToArb" /\ last.status = "returned"
      /\ ~includes(last.text, "$") )
    => ( /\ hasOwn(arbFile.doc, last.key)
         /\ ownValue(arbFile.doc, last.key).t = "str"
         /\ toLowerCase(ownValue(arbFile.doc, last.key).s)
              = toLowerCase(plainText(last.text)) )

\* C29: after any sequence of plain and parameterized extractions on a
\* document of this shape, every key "@k" has a sibling plain key k and maps
\* to an object with a placeholders map, and every other key maps to a string.
C29_DocumentShape ==
    \A i \in DOMAIN arbFile.doc :
        LET e == arbFile.doc[i]
        IN  IF startsWith(e.k, <<"@">>)
            THEN /\ e.v.t = "obj"
                 /\ hasOwn(arbFile.doc, Tail(e.k))
                 /\ ownValue(arbFile.doc, Tail(e.k)).t = "str"
            ELSE e.v.t = "str"

\* a parameterized extraction has added its two entries to a document that
\* held a plain entry
C29_Witness ==
    /\ last.op = "addToArb" /\ last.exit = "Inserted"
    /\ includes(last.text, "$")
    /\ Len(last.before.doc) >= 1
    /\ Len(arbFile.doc) = Len(last.before.doc) + 2
    /\ hasOwn(arbFile.doc, <<"@">> \o last.key)

----------------------------------------------------------------------------
(* The JSON text of the resource file *)

\* a JSON value: a string, a number, or an object with its members in order
JString(s) == [t |-> "str", s |-> s]

JNumber == [t |-> "num"]

JObject(m) == [t |-> "obj", m |-> m]

\* the object {name: {}, ...} of a placeholders map
RECURSIVE placeholderMembers(_)
placeholderMembers(names) ==
    IF names = <<>> THEN <<>>
    ELSE <<[k |-> Head(names), v |-> JObject(<<>>)]>> \o placeholderMembers(Tail(names))

\* the JSON value of a value of the document
jsonValue(v) ==
    CASE v.t = "str" -> JString(v.s)
      [] v.t = "num" -> JNumber
      [] v.t = "obj" ->
           JObject(<< [k |-> <<"p","l","a","c","e","h","o","l","d","e","r","s">>,
                       v |-> JObject(placeholderMembers(v.ph))] >>)

RECURSIVE jsonMembers(_)
jsonMembers(doc) ==
    IF doc = <<>> THEN <<>>
    ELSE <<[k |-> Head(doc).k, v |-> jsonValue(Head(doc).v)]>> \o jsonMembers(Tail(doc))

\* a string written without its escapes
escaped_Raw(s) == s

\* the characters of a string as JSON.stringify writes them between quotes
RECURSIVE escaped(_)
escaped(s) ==
    IF s = <<>> THEN <<>>
    ELSE ( CASE Head(s) = "\"" -> <<"\\", "\"">>
             [] Head(s) = "\\" -> <<"\\", "\\">>
             [] Head(s) = "\n" -> <<"\\", "n">>
             [] OTHER -> <<Head(s)>> ) \o escaped(Tail(s))

quoted(s) == <<"\"">> \o escaped(s) \o <<"\"">>

RECURSIVE spaces(_)
spaces(n) == IF n = 0 THEN <<>> ELSE <<" ">> \o spaces(n - 1)

\* JSON.stringify(value, null, 2) of a value that stands at nesting depth
\* `depth`: a member per line, two spaces of indentation per level, "{}" for
\* the empty object
RECURSIVE stringifyValue(_, _)
RECURSIVE stringifyMembers(_, _)
stringifyValue(j, depth) ==
    CASE j.t = "str" -> quoted(j.s)
      [] j.t = "num" -> <<"1">>
      [] j.t = "obj" ->
           IF j.m = <<>> THEN <<"{", "}">>
           ELSE <<"{", "\n">> \o stringifyMembers(j.m, depth + 1)
                    \o <<"\n">> \o spaces(2 * depth) \o <<"}">>

stringifyMembers(m, depth) ==
    spaces(2 * depth) \o quoted(Head(m).k) \o <<":", " ">>
        \o stringifyValue(Head(m).v, depth)
        \o (IF Len(m) = 1 THEN <<>> ELSE <<",", "\n">> \o stringifyMembers(Tail(m), depth))

\* JSON.stringify(arbContent, null, 2)
stringify(doc) == stringifyValue(JObject(jsonMembers(doc)), 0)

\* the white space JSON.parse skips between tokens
JsonWhiteSpace == {" ", "\n", "\t", "\r"}

RECURSIVE skipWhiteSpace(_, _)
skipWhiteSpace(text, i) ==
    IF i <= Len(text) /\ text[i] \in JsonWhiteSpace
    THEN skipWhiteSpace(text, i + 1) ELSE i

RECURSIVE skipDigits(_, _)
skipDigits(text, i) ==
    IF i <= Len(text) /\ text[i] \in Digits THEN skipDigits(text, i + 1) ELSE i

\* the key is a canonical array index: JavaScript objects keep such keys
\* first, in ascending numeric order
isIndex(key) ==
    /\ key # <<>>
    /\ Range(key) \subseteq Digits
    /\ (Len(key) = 1 \/ key[1] # "0")

DigitChars == <<"0","1","2","3","4","5","6","7","8","9">>

RECURSIVE indexValue(_)
indexValue(key) ==
    IF key = <<>> THEN 0
    ELSE 10 * indexValue(SubSeq(key, 1, Len(key) - 1))
           + (CHOOSE d \in 0..9 : DigitChars[d + 1] = key[Len(key)])

\* the members of an object after JSON.parse has met the member key: value;
\* a key met again keeps its place and takes the new value, an index key goes
\* among the index keys, any other new key goes last
defineProperty(m, key, value) ==
    IF \E i \in DOMAIN m : m[i].k = key
    THEN [i \in DOMAIN m |-> IF m[i].k = key THEN [k |-> key, v |-> value] ELSE m[i]]
    ELSE IF isIndex(key)
    THEN LET p == Cardinality({ i \in DOMAIN m :
                                  /\ isIndex(m[i].k)
                                  /\ indexValue(m[i].k) < indexValue(key) })
         IN  SubSeq(m, 1, p) \o <<[k |-> key, v |-> value]>> \o SubSeq(m, p + 1, Len(m))
    ELSE Append(m, [k |-> key, v |-> value])

\* JSON.parse throws a SyntaxError
SyntaxError == [ok |-> FALSE, v |-> JNumber, s |-> <<>>, next |-> 0]

\* the characters of a string whose opening quote stands before position i,
\* up to its closing quote: [ok, s, next]
RECURSIVE parseChars(_, _)
parseChars(text, i) ==
    IF i > Len(text) \/ text[i] = "\n" THEN SyntaxError
    ELSE IF text[i] = "\"" THEN [ok |-> TRUE, v |-> JNumber, s |-> <<>>, next |-> i + 1]
    ELSE IF text[i] = "\\"
    THEN IF i + 1 > Len(text) \/ text[i + 1] \notin {"\"", "\\", "n"} THEN SyntaxError
         ELSE LET rest == parseChars(text, i + 2)
                  c == IF text[i + 1] = "n" THEN "\n" ELSE text[i + 1]
              IN  IF rest.ok THEN [rest EXCEPT !.s = <<c>> \o @] ELSE SyntaxError
    ELSE LET rest == parseChars(text, i + 1)
         IN  IF rest.ok THEN [rest EXCEPT !.s = <<text[i]>> \o @] ELSE SyntaxError

\* the value that starts at or after position i0: [ok, v, next]
RECURSIVE parseValue(_, _)
RECURSIVE parseMembers(_, _, _)
parseValue(text, i0) ==
    LET i == skipWhiteSpace(text, i0)
    IN  IF i > Len(text) THEN SyntaxError
        ELSE IF text[i] = "\""
        THEN LET c == parseChars(text, i + 1)
             IN  IF c.ok THEN [c EXCEPT !.v = JString(c.s)] ELSE SyntaxError
        ELSE IF text[i] \in Digits
        THEN [ok |-> TRUE, v |-> JNumber, s |-> <<>>, next |-> skipDigits(text, i)]
        ELSE IF text[i] = "{"
        THEN LET j == skipWhiteSpace(text, i + 1)
             IN  IF j <= Len(text) /\ text[j] = "}"
                 THEN [ok |-> TRUE, v |-> JObject(<<>>), s |-> <<>>, next |-> j + 1]
                 ELSE parseMembers(text, j, <<>>)
        ELSE SyntaxError

\* the members of an object from the member that starts at position i on, m
\* being the members met before
parseMembers(text, i, m) ==
    IF i > Len(text) \/ text[i] # "\"" THEN SyntaxError
    ELSE LET key == parseChars(text, i + 1)
         IN  IF ~key.ok THEN SyntaxError
             ELSE LET colon == skipWhiteSpace(text, key.next)
                  IN  IF colon > Len(text) \/ text[colon] # ":" THEN SyntaxError
                      ELSE LET val == parseValue(text, colon + 1)
                           IN  IF ~val.ok THEN SyntaxError
                               ELSE LET j == skipWhiteSpace(text, val.next)
                                        met == defineProperty(m, key.s, val.v)
                                    IN  IF j > Len(text) THEN SyntaxError
                                        ELSE IF text[j] = ","
                                        THEN parseMembers(text, skipWhiteSpace(text, j + 1), met)
                                        ELSE IF text[j] = "}"
                                        THEN [ok |-> TRUE, v |-> JObject(met),
                                              s |-> <<>>, next |-> j + 1]
                                        ELSE SyntaxError

\* JSON.parse(text): one value and nothing but white space after it
parse(text) ==
    LET r == parseValue(text, 1)
    IN  IF r.ok /\ skipWhiteSpace(text, r.next) = Len(text) + 1 THEN r ELSE SyntaxError

RECURSIVE memberKeys(_)
memberKeys(m) ==
    IF m = <<>> THEN <<>> ELSE <<Head(m).k>> \o memberKeys(Tail(m))

\* the JSON value is a metadata object {"placeholders": {name: {}, ...}}
isMetadata(j) ==
    /\ j.t = "obj" /\ Len(j.m) = 1
    /\ j.m[1].k = <<"p","l","a","c","e","h","o","l","d","e","r","s">>
    /\ j.m[1].v.t = "obj"
    /\ \A n \in DOMAIN j.m[1].v.m : j.m[1].v.m[n].v = JObject(<<>>)

\* the value of the document that a JSON value is (an object of another shape
\* is kept as it is)
documentValue(j) ==
    CASE j.t = "str" -> Str(j.s)
      [] j.t = "num" -> Num
      [] OTHER -> IF isMetadata(j) THEN Meta(memberKeys(j.m[1].v.m))
                  ELSE [t |-> "obj", s |-> <<>>, ph |-> <<>>, m |-> j.m]

RECURSIVE documentEntries(_)
documentEntries(m) ==
    IF m = <<>> THEN <<>>
    ELSE <<[k |-> Head(m).k, v |-> documentValue(Head(m).v)]>> \o documentEntries(Tail(m))

\* entries to build documents from: plain keys, two of them array indices,
\* with strings that need escapes, and a metadata key
JsonEntries ==
    { [k |-> k, v |-> Str(s)] :
          k \in { <<"b">>, <<"2">>, <<"1","0">> },
          s \in { <<>>, <<"a", "\"", "\\", "\n", "{">> } }
    \cup { [k |-> <<"@","b">>, v |-> Meta(names)] :
          names \in { <<>>, << <<"n">>, <<"m">> >> } }

\* the object that results from setting the entries of es in order
RECURSIVE objectOf(_)
objectOf(es) ==
    IF es = <<>> THEN <<>>
    ELSE LET e == es[Len(es)]
         IN  defineProperty(objectOf(SubSeq(es, 1, Len(es) - 1)), e.k, e.v)

JsonDocuments ==
    { objectOf(es) : es \in UNION { [1..n -> JsonEntries] : n \in 0..MaxEntries } }

\* modifyArbFile, lines 468-469: the document is serialized and written
Persist ==
    /\ last.op # "persist"
    /\ arbText' = stringify(arbFile.doc)
    /\ arbFile' = written(arbFile.doc)
    /\ last' = [NoRequest EXCEPT !.op = "persist", !.before = arbFile]
    /\ UNCHANGED <<pathToArbFile, editorText, activeFile, requests, document, bulk>>

\* getArbContentFromWorkspace, lines 736-742: the file is read and parsed
Load ==
    /\ last.op = "persist"
    /\ \E r \in { parse(arbText) } :
           /\ arbFile' = IF r.ok THEN [fmt |-> "pretty", doc |-> documentEntries(r.v.m)]
                         ELSE arbFile
           /\ last' = [last EXCEPT !.op = "load",
                                   !.exit = IF r.ok THEN "Loaded" ELSE "ParseThrew"]
    /\ UNCHANGED <<pathToArbFile, editorText, activeFile, arbText, requests, document, bulk>>

InitJson ==
    /\ arbFile \in { [fmt |-> "hand", doc |-> d] : d \in JsonDocuments }
    /\ pathToArbFile = TRUE
    /\ editorText = {}
    /\ activeFile = HomePage
    /\ last = NoRequest
    /\ OneRequestAtATime

NextJson == Persist \/ Load

SpecJson == InitJson /\ [][NextJson]_vars

\* C21: a document of plain strings and metadata objects that is persisted
\* (JSON, two spaces of indentation) and loaded again is the same document: the
\* same keys in the same order, each with the same value.
C21_RoundTrip ==
    last.op = "load"
    => ( /\ last.exit = "Loaded"
         /\ arbFile.doc = last.before.doc )

\* a document with an array-index key, a string that needs escapes and a
\* metadata object with placeholders has been persisted and loaded
C21_Witness ==
    /\ last.op = "load" /\ last.exit = "Loaded"
    /\ Len(arbFile.doc) = 3
    /\ \E i \in DOMAIN arbFile.doc : isIndex(arbFile.doc[i].k)
    /\ \E i \in DOMAIN arbFile.doc : "\"" \in Range(arbFile.doc[i].v.s)
    /\ \E i \in DOMAIN arbFile.doc : arbFile.doc[i].v.ph # <<>>

----------------------------------------------------------------------------
(* Extraction requests that are pending at the same time *)

\* the number of requests started in one run
MaxRequests == 3

\* The handlers are async functions: a request runs up to
\* `await getArbContentFromWorkspace()` (line 184 or 594), where the file has
\* been read (line 736), and goes on in a later turn of the job queue.
\* continued is what the rest of the handler does with the content `read` it
\* was given while the file is `file`: handleVariableString writes the content
\* it was given with its entries added (lines 626-658); addStringToArb calls
\* modifyArbFile, which reads the file again and writes at once (lines 451-469)
continued(text, read, file) ==
    LET r == addSelectionToArbHandler(text, read, TRUE)
    IN  IF r.exit # "Inserted" THEN [r EXCEPT !.file = file]
        ELSE IF includes(text, "$") THEN r
        ELSE [r EXCEPT !.file = modifyArbFile(r.key, removeAll(plainText(text), Quotes),
                                              file, TRUE).file]

\* the text holds the sigil and no token: the handler returns at lines 574-577
\* and never reads the file
endsBeforeRead(text) == includes(text, "$") /\ extractVariables(text) = <<>>

\* a command extension.addToArb is started while earlier ones may be pending:
\* it runs up to its await, the file read
Begin(text) ==
    /\ activeFile # <<>>
    /\ pathToArbFile
    /\ text \in editorText
    /\ Len(requests) < MaxRequests
    /\ requests' = Append(requests,
                          [text |-> text, read |-> arbFile, key |-> NoKey,
                           phase |-> IF endsBeforeRead(text) THEN "done" ELSE "awaiting",
                           exit |-> IF endsBeforeRead(text) THEN "NoVariables" ELSE "none"])
    /\ UNCHANGED <<arbFile, pathToArbFile, editorText, activeFile, last,
                   arbText, document, bulk>>

\* the pending request that was started first goes on to its end
Resume ==
    \E i \in DOMAIN requests :
        /\ requests[i].phase = "awaiting"
        /\ \A j \in 1..(i - 1) : requests[j].phase = "done"
        /\ \E r \in { continued(requests[i].text, requests[i].read, arbFile) } :
               /\ arbFile' = r.file
               /\ requests' = [requests EXCEPT ![i].phase = "done",
                                               ![i].exit = r.exit,
                                               ![i].key = r.key]
               /\ last' = Completed("addToArb", requests[i].text, NoText, r, NoFault)
        /\ UNCHANGED <<pathToArbFile, editorText, activeFile, arbText, document, bulk>>

InitAsync ==
    /\ arbFile = EmptyFile
    /\ pathToArbFile = TRUE
    /\ editorText = { HelloWorld, SaveLower, BareId, HiVariable }
    /\ activeFile = HomePage
    /\ last = NoRequest
    /\ OneRequestAtATime

NextAsync ==
    \/ \E text \in editorText : Begin(text)
    \/ Resume

SpecAsync == InitAsync /\ [][NextAsync]_vars

\* C28: no write of another request comes between the read a request's write
\* is based on and that write: when all pending requests have ended, the file
\* holds the entry of every request that inserted one (no lost update).
C28_NoLostUpdate ==
    \A i \in DOMAIN requests :
        ( requests[i].phase = "done" /\ requests[i].exit = "Inserted" )
        => hasOwn(arbFile.doc, requests[i].key)

----------------------------------------------------------------------------
(* The command that extracts all marked literals of a document *)

\* the number of runs of the command on one document
MaxRuns == 2

\* s.includes(p) for a string p
includesString(s, p) == p = <<>> \/ indexOf(s, p) # 0

\* the text has the characters of p from position i on
hasAt(text, i, p) ==
    /\ i + Len(p) - 1 <= Len(text)
    /\ SubSeq(text, i, i + Len(p) - 1) = p

RECURSIVE afterWhiteSpace(_, _)
afterWhiteSpace(text, i) ==
    IF i <= Len(text) /\ text[i] \in WhiteSpace THEN afterWhiteSpace(text, i + 1) ELSE i

\* the closing quotes j with which /(["'].*["'])\n?\s*\.translatable/ can
\* match from the quote at position i: the same line up to j, then white space
\* and the token
closingQuotes(text, i) ==
    { j \in (i + 1)..Len(text) :
          /\ text[j] \in Quotes
          /\ \A n \in (i + 1)..(j - 1) : text[n] # "\n"
          /\ hasAt(text, afterWhiteSpace(text, j + 1), translatableToken) }

\* the last position of the match that starts at position i, 0 when there is
\* none; .* is greedy, so the last closing quote is taken
matchEnd(text, i) ==
    IF i > Len(text) \/ text[i] \notin Quotes \/ closingQuotes(text, i) = {} THEN 0
    ELSE LET j == CHOOSE c \in closingQuotes(text, i) :
                      \A d \in closingQuotes(text, i) : d <= c
         IN  afterWhiteSpace(text, j + 1) + Len(translatableToken) - 1

\* the positions from i on at which the pattern matches
matchStarts(text, i) == { n \in i..Len(text) : matchEnd(text, n) # 0 }

\* documentContents.match(regex): the matches from position i on, leftmost
\* first, none overlapping
RECURSIVE regexMatches(_, _)
regexMatches(text, i) ==
    IF matchStarts(text, i) = {} THEN <<>>
    ELSE LET n == CHOOSE a \in matchStarts(text, i) : \A b \in matchStarts(text, i) : a <= b
         IN  <<SubSeq(text, n, matchEnd(text, n))>> \o regexMatches(text, matchEnd(text, n) + 1)

\* key.slice(1, key.indexOf(translatableToken) - 1), indexOf being 0-based
cleanedString(match) == SubSeq(match, 2, indexOf(match, translatableToken) - 2)

RECURSIVE cleanedStrings(_)
cleanedStrings(matches) ==
    IF matches = <<>> THEN <<>>
    ELSE <<cleanedString(Head(matches))>> \o cleanedStrings(Tail(matches))

\* matches.find((match) => match.includes(selectedString))
find(matches, selectedString) ==
    matches[CHOOSE i \in DOMAIN matches :
                /\ includesString(matches[i], selectedString)
                /\ \A j \in 1..(i - 1) : ~includesString(matches[j], selectedString)]

\* the number of line breaks among the first o characters
newlinesBefore(doc, o) == Cardinality({ i \in 1..o : doc[i] = "\n" })

\* document.lineCount
lineCount(doc) == newlinesBefore(doc, Len(doc)) + 1

\* the offset of the first character of line n (offsets and lines count from 0)
lineStart(doc, n) ==
    IF n = 0 THEN 0
    ELSE CHOOSE i \in 1..Len(doc) : doc[i] = "\n" /\ newlinesBefore(doc, i) = n

\* the number of characters of line n, its line break not counted
lineLength(doc, n) ==
    ( IF n = lineCount(doc) - 1 THEN Len(doc) ELSE lineStart(doc, n + 1) - 1 )
        - lineStart(doc, n)

\* document.lineAt(n).text
lineText(doc, n) == SubSeq(doc, lineStart(doc, n) + 1, lineStart(doc, n) + lineLength(doc, n))

\* document.positionAt(offset): the offset is brought into the document
positionAt(doc, offset) ==
    LET o == IF offset < 0 THEN 0 ELSE IF offset > Len(doc) THEN Len(doc) ELSE offset
        line == newlinesBefore(doc, o)
    IN  [line |-> line, character |-> o - lineStart(doc, line)]

\* document.offsetAt(position): the position is brought into the document
offsetAt(doc, position) ==
    IF position.line >= lineCount(doc) THEN Len(doc)
    ELSE lineStart(doc, position.line)
           + ( IF position.character > lineLength(doc, position.line)
               THEN lineLength(doc, position.line) ELSE position.character )

\* document.getText(range)
getText(doc, range) ==
    SubSeq(doc, offsetAt(doc, range.start) + 1, offsetAt(doc, range.end))

\* editBuilder.replace(range, text)
replaceRange(doc, range, text) ==
    SubSeq(doc, 1, offsetAt(doc, range.start)) \o text
        \o SubSeq(doc, offsetAt(doc, range.end) + 1, Len(doc))

importLine ==
    <<"i","m","p","o","r","t"," ","'","p","a","c","k","a","g","e",":","v",
      "s","b","l","_","l","1","0","n","/","l","i","b",".","d","a","r","t",
      "'",";">>

\* the last line that includes "import", line 0 when there is none
lastImportBlockLine(doc) ==
    LET with == { n \in 0..(lineCount(doc) - 1) :
                      includesString(lineText(doc, n), <<"i","m","p","o","r","t">>) }
    IN  IF with = {} THEN 0 ELSE CHOOSE n \in with : \A m \in with : m <= n

\* insertImports(editor): the import line is inserted after the last line
\* that includes "import" unless a line includes the import line
insertImports(doc) ==
    IF \E n \in 0..(lineCount(doc) - 1) : includesString(lineText(doc, n), importLine)
    THEN doc
    ELSE LET at == [line |-> lastImportBlockLine(doc) + 1, character |-> 0]
         IN  replaceRange(doc, [start |-> at, end |-> at], importLine \o <<"\n">>)

\* the selected strings: those of the cleaned strings whose place is in picked
RECURSIVE pickedStrings(_, _, _)
pickedStrings(strings, picked, n) ==
    IF n > Len(strings) THEN <<>>
    ELSE (IF n \in picked THEN <<strings[n]>> ELSE <<>>)
             \o pickedStrings(strings, picked, n + 1)

\* the command extension.addAllToArb up to the answer of the quick pick: the
\* text of the document is kept, its matches are found and the user picks
\* some of the strings shown
AddAllToArb(picked) ==
    /\ activeFile # <<>>
    /\ bulk.todo = <<>>
    /\ bulk.runs < MaxRuns
    /\ \E matches \in { regexMatches(document, 1) } :
           /\ matches # <<>>
           /\ picked # {} /\ picked \subseteq DOMAIN matches
           /\ bulk' = [NoBulk EXCEPT !.contents = document,
                                     !.matches = matches,
                                     !.todo = pickedStrings(cleanedStrings(matches), picked, 1),
                                     !.runs = bulk.runs + 1]
    /\ UNCHANGED <<arbFile, pathToArbFile, editorText, activeFile, last,
                   arbText, requests, document>>

\* one turn of the loop over the selected strings: the range of the match is
\* computed, selected and handed to addSelectionToArbHandler, whose edits
\* (the replacement, then insertImports) are applied before the next turn
AddNextToArb ==
    /\ bulk.todo # <<>>
    /\ LET selectedString == Head(bulk.todo)
           matchToReplace == find(bulk.matches, selectedString)
           startOfSelectedString == indexOf(bulk.contents, matchToReplace) - 1
           endOfSelectedString == startOfSelectedString + Len(matchToReplace)
           range == [start |-> positionAt(document, startOfSelectedString),
                     end |-> positionAt(document, endOfSelectedString)]
           text == getText(document, range)
       IN  \E r \in { addSelectionToArbHandler(text, arbFile, TRUE) } :
               /\ Len(r.file.doc) <= MaxEntries
               /\ arbFile' = r.file
               /\ document' = IF r.replacement = NoText THEN document
                              ELSE insertImports(replaceRange(document, range, r.replacement))
               /\ last' = Completed("addAllToArb", text, NoText, r, NoFault)
               /\ bulk' = [bulk EXCEPT !.todo = Tail(bulk.todo),
                                       !.selected = selectedString,
                                       !.match = matchToReplace,
                                       !.range = <<offsetAt(document, range.start),
                                                   offsetAt(document, range.end)>>,
                                       !.found = text,
                                       !.steps = bulk.steps + 1]
    /\ UNCHANGED <<pathToArbFile, editorText, activeFile, arbText, requests>>

\* documents with three marked literals, with and without import lines, and
\* one with the token on a line of its own
PlainDocument ==
    <<"\"","H","i","\"",".","t","r","a","n","s","l","a","t","a","b","l","e",
      "\n","\"","O","k","\"",".","t","r","a","n","s","l","a","t","a","b",
      "l","e","\n","\"","N","o","\"",".","t","r","a","n","s","l","a","t",
      "a","b","l","e">>

ImportedDocument ==
    <<"i","m","p","o","r","t"," ","'","p","a","c","k","a","g","e",":","v",
      "s","b","l","_","l","1","0","n","/","l","i","b",".","d","a","r","t",
      "'",";","\n","\"","H","i","\"",".","t","r","a","n","s","l","a","t",
      "a","b","l","e","\n","\"","O","k","\"",".","t","r","a","n","s","l",
      "a","t","a","b","l","e","\n","\"","N","o","\"",".","t","r","a","n",
      "s","l","a","t","a","b","l","e">>

OtherImportDocument ==
    <<"i","m","p","o","r","t"," ","'","a","'",";","\n","\"","H","i","\"",
      ".","t","r","a","n","s","l","a","t","a","b","l","e","\n","\"","O","k",
      "\"",".","t","r","a","n","s","l","a","t","a","b","l","e","\n","\"",
      "N","o","\"",".","t","r","a","n","s","l","a","t","a","b","l","e">>

TokenLineDocument ==
    <<"\"","H","i","\"","\n"," "," ",".","t","r","a","n","s","l","a","t",
      "a","b","l","e","\n","\"","O","k","\"",".","t","r","a","n","s","l",
      "a","t","a","b","l","e","\n","\"","N","o","\"",".","t","r","a","n",
      "s","l","a","t","a","b","l","e">>

Documents == { PlainDocument, ImportedDocument, OtherImportDocument, TokenLineDocument }

InitBulk ==
    /\ arbFile = EmptyFile
    /\ pathToArbFile = TRUE
    /\ editorText = {}
    /\ activeFile = HomePage
    /\ last = NoRequest
    /\ arbText = <<>>
    /\ requests = <<>>
    /\ document \in Documents
    /\ bulk = NoBulk

NextBulk ==
    \/ \E picked \in SUBSET (1..3) : AddAllToArb(picked)
    \/ AddNextToArb

SpecBulk == InitBulk /\ [][NextBulk]_vars

\* C30: in the bulk command, the range replaced for a selected string holds,
\* in the document as it is at that moment, that string's match: the quoted
\* literal and the marker.
C30_ReplacedRangeIsTheMatch ==
    bulk.steps > 0
    => ( /\ bulk.found = bulk.match
         /\ cleanedString(bulk.match) = bulk.selected )

====
